---------------------------- MODULE Spec2Model ----------------------------
(***************************************************************************)
(* Model of src/main.py, the daily NBFC news briefing bot: the feed        *)
(* filter chain, the persisted history of sent link hashes, the ordered    *)
(* fallback over generation models and the hand-over to the mail sink.     *)
(*                                                                         *)
(* Python strings are sequences of one-character strings, so that the      *)
(* substring tests, the regular expressions of clean_text and str.split    *)
(* are computed character by character as the interpreter computes them.   *)
(***************************************************************************)
EXTENDS Integers, Sequences, FiniteSets, TLC

-----------------------------------------------------------------------------
(* Characters and the str methods the program uses.                        *)

LowerCase ==
  <<"a","b","c","d","e","f","g","h","i","j","k","l","m",
    "n","o","p","q","r","s","t","u","v","w","x","y","z">>

UpperCase ==
  <<"A","B","C","D","E","F","G","H","I","J","K","L","M",
    "N","O","P","Q","R","S","T","U","V","W","X","Y","Z">>

Digits ==
  <<"0","1","2","3","4","5","6","7","8","9">>

Range(s) ==
  {s[i] : i \in DOMAIN s}

\* \s of the re module, for the characters that occur in the inputs
Whitespace ==
  {" ", "\t", "\n"}

\* [a-zA-Z0-9] of the re module
IsAlnum(c) ==
  c \in Range(LowerCase) \cup Range(UpperCase) \cup Range(Digits)

\* str.lower on one character
LowerChar(c) ==
  IF c \in Range(UpperCase)
    THEN LowerCase[CHOOSE i \in DOMAIN UpperCase : UpperCase[i] = c]
    ELSE c

\* str.lower
str_lower(s) ==
  [i \in DOMAIN s |-> LowerChar(s[i])]

RECURSIVE str_lstrip(_)
str_lstrip(s) ==
  IF s # <<>> /\ Head(s) \in Whitespace THEN str_lstrip(Tail(s)) ELSE s

RECURSIVE str_rstrip(_)
str_rstrip(s) ==
  IF s # <<>> /\ s[Len(s)] \in Whitespace
    THEN str_rstrip(SubSeq(s, 1, Len(s) - 1))
    ELSE s

\* str.strip
str_strip(s) ==
  str_rstrip(str_lstrip(s))

\* the Python test `sub in s` on two strings
str_in(sub, s) ==
  \E i \in 0..(Len(s) - Len(sub)) : SubSeq(s, i + 1, i + Len(sub)) = sub

\* str.split() without arguments: the maximal runs of non-whitespace
RECURSIVE SplitWords(_)
SplitWords(s) ==
  LET rest == str_lstrip(s)
  IN  IF rest = <<>>
        THEN <<>>
        ELSE LET end == CHOOSE i \in 1..(Len(rest) + 1) :
                          /\ i = Len(rest) + 1 \/ rest[i] \in Whitespace
                          /\ \A j \in 1..(i - 1) : rest[j] \notin Whitespace
             IN  <<SubSeq(rest, 1, end - 1)>>
                   \o SplitWords(SubSeq(rest, end, Len(rest)))

str_split(s) ==
  SplitWords(s)

\* " ".join(words)
RECURSIVE JoinWords(_)
JoinWords(words) ==
  IF Len(words) = 1
    THEN words[1]
    ELSE words[1] \o <<" ">> \o JoinWords(Tail(words))

\* re.split(r'\s-\s', text)[0]: the text before the first " - " separator
SeparatorAt(text, i) ==
  /\ i + 2 <= Len(text)
  /\ text[i] \in Whitespace
  /\ text[i + 1] = "-"
  /\ text[i + 2] \in Whitespace

re_split_first(text) ==
  IF \E i \in DOMAIN text : SeparatorAt(text, i)
    THEN LET first == CHOOSE i \in DOMAIN text :
                        /\ SeparatorAt(text, i)
                        /\ \A j \in 1..(i - 1) : ~SeparatorAt(text, j)
         IN  SubSeq(text, 1, first - 1)
    ELSE text

\* re.sub(r'[^a-zA-Z0-9\s]', '', text)
KeptByCleaner(c) ==
  IsAlnum(c) \/ c \in Whitespace

re_sub_non_alnum(text) ==
  SelectSeq(text, KeptByCleaner)

-----------------------------------------------------------------------------
(* Configuration lists of the program.                                     *)

STOCK_NOISE_KEYWORDS ==
  <<
    <<"s","h","a","r","e"," ","p","r","i","c","e">>,
    <<"s","t","o","c","k"," ","p","r","i","c","e">>,
    <<"s","h","a","r","e","s">>,
    <<"s","t","o","c","k","s">>,
    <<"c","l","o","s","i","n","g">>,
    <<"t","r","a","d","i","n","g">>,
    <<"i","n","t","r","a","d","a","y">>,
    <<"m","a","r","k","e","t"," ","c","a","p">>,
    <<"m","-","c","a","p">>,
    <<"v","a","l","u","a","t","i","o","n">>,
    <<"s","e","n","s","e","x">>,
    <<"n","i","f","t","y">>,
    <<"b","s","e">>,
    <<"n","s","e">>,
    <<"b","u","l","l">>,
    <<"b","e","a","r">>,
    <<"r","a","l","l","y">>,
    <<"p","l","u","n","g","e">>,
    <<"s","u","r","g","e","s">>,
    <<"j","u","m","p","s">>,
    <<"f","a","l","l","s">>,
    <<"s","o","a","r","s">>,
    <<"h","i","t","s">>,
    <<"5","2","-","w","e","e","k">>,
    <<"u","p","p","e","r"," ","c","i","r","c","u","i","t">>,
    <<"l","o","w","e","r"," ","c","i","r","c","u","i","t">>,
    <<"i","n","v","e","s","t","o","r","s"," ","l","o","s","e">>,
    <<"w","e","a","l","t","h"," ","e","r","o","d","e","s">>,
    <<"t","o","p"," ","l","o","s","e","r">>,
    <<"t","o","p"," ","g","a","i","n","e","r">>,
    <<"f","l","a","t">>,
    <<"v","o","l","a","t","i","l","e">>,
    <<"g","a","i","n","s">>,
    <<"l","o","s","s","e","s">>,
    <<"g","r","e","e","n">>,
    <<"r","e","d">>,
    <<"t","e","c","h","n","i","c","a","l"," ","a","n","a","l","y","s","i","s">>,
    <<"c","h","a","r","t">>,
    <<"c","a","n","d","l","e","s","t","i","c","k">>,
    <<"m","o","v","i","n","g"," ","a","v","e","r","a","g","e">>,
    <<"r","s","i">>,
    <<"m","a","c","d">>,
    <<"s","u","p","p","o","r","t"," ","l","e","v","e","l">>,
    <<"r","e","s","i","s","t","a","n","c","e"," ","l","e","v","e","l">>,
    <<"b","r","e","a","k","o","u","t">>,
    <<"b","r","e","a","k","d","o","w","n">>,
    <<"p","i","v","o","t">>,
    <<"v","o","l","u","m","e">>,
    <<"m","o","m","e","n","t","u","m">>,
    <<"t","r","e","n","d","l","i","n","e">>,
    <<"c","r","o","s","s","o","v","e","r">>,
    <<"t","e","c","h","n","i","c","a","l","s">>,
    <<"c","h","a","r","t"," ","c","h","e","c","k">>,
    <<"g","o","l","d","e","n"," ","c","r","o","s","s">>,
    <<"b","u","y"," ","r","a","t","i","n","g">>,
    <<"s","e","l","l"," ","r","a","t","i","n","g">>,
    <<"a","c","c","u","m","u","l","a","t","e">>,
    <<"h","o","l","d"," ","r","a","t","i","n","g">>,
    <<"t","a","r","g","e","t"," ","p","r","i","c","e">>,
    <<"t","a","r","g","e","t"," ","o","f">>,
    <<"u","p","s","i","d","e">>,
    <<"d","o","w","n","s","i","d","e">>,
    <<"s","t","o","p"," ","l","o","s","s">>,
    <<"b","r","o","k","e","r","a","g","e"," ","v","i","e","w">>,
    <<"r","e","c","o","m","m","e","n","d","s">>,
    <<"b","r","o","k","e","r","a","g","e"," ","r","a","d","a","r">>,
    <<"a","n","a","l","y","s","t"," ","c","a","l","l","s">>,
    <<"m","a","r","k","e","t"," ","v","o","i","c","e">>,
    <<"s","t","o","c","k","s"," ","t","o"," ","w","a","t","c","h">>,
    <<"s","t","o","c","k","s"," ","t","o"," ","b","u","y">>,
    <<"m","a","r","k","e","t"," ","l","i","v","e">>,
    <<"l","i","v","e"," ","u","p","d","a","t","e","s">>,
    <<"s","t","o","c","k"," ","p","i","c","k","s">>,
    <<"t","r","a","d","i","n","g"," ","i","d","e","a","s">>,
    <<"m","o","r","n","i","n","g"," ","t","r","a","d","e">>,
    <<"o","p","e","n","i","n","g"," ","b","e","l","l">>,
    <<"c","l","o","s","i","n","g"," ","b","e","l","l">>,
    <<"m","a","r","k","e","t"," ","w","r","a","p">>,
    <<"p","r","e","-","m","a","r","k","e","t">>,
    <<"a","f","t","e","r","-","m","a","r","k","e","t">>,
    <<"a","h","e","a","d"," ","o","f"," ","m","a","r","k","e","t">>,
    <<"m","a","r","k","e","t"," ","p","r","e","d","i","c","t","i","o","n">>,
    <<"t","r","a","d","e"," ","s","e","t","u","p">>,
    <<"h","o","t"," ","s","t","o","c","k","s">>,
    <<"b","u","z","z","i","n","g"," ","s","t","o","c","k","s">>,
    <<"o","p","t","i","o","n","s">>,
    <<"f","u","t","u","r","e","s">>,
    <<"f","&","o">>,
    <<"d","e","r","i","v","a","t","i","v","e">>,
    <<"c","a","l","l"," ","o","p","t","i","o","n">>,
    <<"p","u","t"," ","o","p","t","i","o","n">>,
    <<"b","a","n","k"," ","n","i","f","t","y">>,
    <<"n","i","f","t","y"," ","p","r","e","d","i","c","t","i","o","n">>,
    <<"m","u","l","t","i","b","a","g","g","e","r">>,
    <<"d","i","v","i","d","e","n","d">>,
    <<"b","o","n","u","s"," ","i","s","s","u","e">>,
    <<"s","t","o","c","k"," ","s","p","l","i","t">>,
    <<"r","e","c","o","r","d"," ","d","a","t","e">>,
    <<"e","x","-","d","i","v","i","d","e","n","d">>,
    <<"d","e","m","a","t">>
  >>

CREDIBLE_SOURCES ==
  <<
    <<"E","c","o","n","o","m","i","c"," ","T","i","m","e","s">>,
    <<"T","h","e"," ","E","c","o","n","o","m","i","c"," ","T","i","m","e","s">>,
    <<"L","i","v","e","m","i","n","t">>,
    <<"M","i","n","t">>,
    <<"B","u","s","i","n","e","s","s"," ","S","t","a","n","d","a","r","d">>,
    <<"M","o","n","e","y","c","o","n","t","r","o","l">>,
    <<"F","i","n","a","n","c","i","a","l"," ","E","x","p","r","e","s","s">>,
    <<"C","N","B","C","-","T","V","1","8">>,
    <<"C","N","B","C">>,
    <<"T","h","e"," ","H","i","n","d","u"," ","B","u","s","i","n","e","s","s"," ","L","i","n","e">>,
    <<"B","l","o","o","m","b","e","r","g">>,
    <<"R","e","u","t","e","r","s">>,
    <<"N","D","T","V"," ","P","r","o","f","i","t">>,
    <<"B","u","s","i","n","e","s","s"," ","T","o","d","a","y">>,
    <<"I","n","c","4","2">>,
    <<"E","n","t","r","a","c","k","r">>,
    <<"V","C","C","i","r","c","l","e">>,
    <<"F","o","r","t","u","n","e"," ","I","n","d","i","a">>,
    <<"F","o","r","b","e","s"," ","I","n","d","i","a">>,
    <<"V","C","C","E","d","g","e">>
  >>

FUNDAMENTAL_TERMS ==
  <<
    <<"p","r","o","f","i","t">>,
    <<"r","e","s","u","l","t">>,
    <<"e","a","r","n","i","n","g","s">>,
    <<"r","e","v","e","n","u","e">>,
    <<"q","u","a","r","t","e","r">>
  >>

bad_context ==
  <<
    <<"s","h","a","r","e">>,
    <<"s","t","o","c","k">>,
    <<"t","a","r","g","e","t">>,
    <<"b","u","y">>,
    <<"s","e","l","l">>,
    <<"d","i","v","i","d","e","n","d">>,
    <<"s","p","l","i","t">>,
    <<"s","u","r","g","e","s">>,
    <<"f","a","l","l","s">>,
    <<"j","u","m","p","s">>
  >>

MODELS ==
  <<"gemini-2.5-flash",
    "gemini-2.5-flash-lite",
    "gemini-2.0-flash",
    "gemini-1.5-flash",
    "gemini-1.5-flash-8b",
    "gemini-1.5-pro">>

\* len(WATCHLIST_COMPANIES)
WatchlistSize ==
  43

\* chunk_size of generate_rss_links
chunk_size ==
  8

\* retries, the default of call_gemini_with_retry
retries ==
  3

\* all_headlines[:50]
MaxHeadlines ==
  50

\* delta.days <= 2
RecencyDays ==
  2

\* the similarity threshold 0.45, in hundredths
DuplicatePercent ==
  45

-----------------------------------------------------------------------------
(* The pure functions of the filter chain.                                 *)

\* hashlib.md5(url.encode()).hexdigest(): the digest of a link
url_hash(url) ==
  <<"md5", url>>

\* generate_rss_links: one general query, then one query per chunk of the
\* watchlist; a link is identified by the batch it asks for
generate_rss_links ==
  LET starts == {i \in 0..(WatchlistSize - 1) : i % chunk_size = 0}
  IN  <<"general">> \o [k \in 1..Cardinality(starts) |-> <<"companies", (k - 1) * chunk_size>>]

\* is_within_last_48_hours; a published string is either unparseable or
\* parses to a time `age` hours before utcnow()
is_within_last_48_hours(published) ==
  IF published.parseable
    THEN (published.age \div 24) <= RecencyDays
    ELSE TRUE

clean_text(text) ==
  str_strip(str_lower(re_sub_non_alnum(re_split_first(text))))

AnyIn(terms, clean_title) ==
  \E k \in DOMAIN terms : str_in(terms[k], clean_title)

\* a variant of NoiseScan: a fundamentals term excuses every noise keyword
RECURSIVE NoiseScanLenient(_, _)
NoiseScanLenient(clean_title, i) ==
  IF i > Len(STOCK_NOISE_KEYWORDS)
    THEN FALSE
    ELSE IF str_in(STOCK_NOISE_KEYWORDS[i], clean_title)
           THEN ~AnyIn(FUNDAMENTAL_TERMS, clean_title)
           ELSE NoiseScanLenient(clean_title, i + 1)

\* the loop of is_stock_noise from keyword number i on
RECURSIVE NoiseScan(_, _)
NoiseScan(clean_title, i) ==
  IF i > Len(STOCK_NOISE_KEYWORDS)
    THEN FALSE
    ELSE IF str_in(STOCK_NOISE_KEYWORDS[i], clean_title)
           THEN IF AnyIn(FUNDAMENTAL_TERMS, clean_title)
                  THEN AnyIn(bad_context, clean_title)
                  ELSE TRUE
           ELSE NoiseScan(clean_title, i + 1)

is_stock_noise(title) ==
  NoiseScan(clean_text(title), 1)

\* hasattr(obj, name) and dict.get(key, default) on records
hasattr(obj, name) ==
  name \in DOMAIN obj

dict_get(d, key, default) ==
  IF key \in DOMAIN d THEN d[key] ELSE default

is_credible_source(entry) ==
  IF ~hasattr(entry, "source")
    THEN FALSE
    ELSE LET source_title == str_strip(dict_get(entry.source, "title", <<>>))
         IN  \E k \in DOMAIN CREDIBLE_SOURCES :
               str_in(str_lower(CREDIBLE_SOURCES[k]), str_lower(source_title))

get_word_set(text) ==
  {w \in Range(str_split(clean_text(text))) : Len(w) > 3}

\* "Bajaj Finance raises funding"
TitleFunding ==
  <<"B","a","j","a","j"," ","F","i","n","a","n","c","e"," ","r","a","i","s","e","s"," ","f","u","n","d","i","n","g">>

\* "Bajaj Finance raises fresh funding - Mint"
TitleFundingAgain ==
  <<"B","a","j","a","j"," ","F","i","n","a","n","c","e"," ","r","a","i","s","e","s"," ","f","r","e","s","h"," ","f","u","n","d","i","n","g"," ","-"," ","M","i","n","t">>

\* "Stock hits 52-week high"
TitleNoise ==
  <<"S","t","o","c","k"," ","h","i","t","s"," ","5","2","-","w","e","e","k"," ","h","i","g","h">>

\* "RBI MD to act"
TitleShort ==
  <<"R","B","I"," ","M","D"," ","t","o"," ","a","c","t">>

\* "Muthoot Finance completes merger"
TitleMerger ==
  <<"M","u","t","h","o","o","t"," ","F","i","n","a","n","c","e"," ","c","o","m","p","l","e","t","e","s"," ","m","e","r","g","e","r">>

\* Titles of many words, for the threshold of is_duplicate: the words are
\* "worda", "wordb", ... and a title is a run of them, first to last
LongWord(k) ==
  <<"W","o","r","d">> \o <<LowerCase[k]>>

LongTitle(first, last) ==
  JoinWords([k \in 1..(last - first + 1) |-> LongWord(first + k - 1)])

\* "Worda ... Wordn - Mint": the suffix after the separator is cut off
LongTitleWithSource(first, last) ==
  LongTitle(first, last) \o <<" ","-"," ">> \o <<"M","i","n","t">>

LongTitles ==
  {LongTitle(1, 14), LongTitle(1, 20), LongTitle(5, 14), LongTitle(5, 20),
   LongTitleWithSource(6, 14), LongTitleWithSource(6, 20)}

\* "Bajaj Finance raises capital": 3 of its 4 long words are among the 4 of
\* TitleFunding, 3 of 5 in all
TitleCapital ==
  <<"B","a","j","a","j"," ","F","i","n","a","n","c","e"," ","r","a","i","s","e","s"," ","c","a","p","i","t","a","l">>

\* "Mint"
SourceMint ==
  <<"M","i","n","t">>

\* "Reuters India"
SourceReuters ==
  <<"R","e","u","t","e","r","s"," ","I","n","d","i","a">>

\* "Penny Tips Blog"
SourceBlog ==
  <<"P","e","n","n","y"," ","T","i","p","s"," ","B","l","o","g">>

-----------------------------------------------------------------------------
(* The environment: what the feeds, the generation API, the SMTP server    *)
(* and the file system can answer.                                         *)

\* bounds of the exploration
MaxEntries ==
  2

MaxRuns ==
  2

Fresh ==
  [parseable |-> TRUE, age |-> 5]

Outdated ==
  [parseable |-> TRUE, age |-> 80]

Unparseable ==
  [parseable |-> FALSE]

EntryFunding ==
  [title |-> TitleFunding, link |-> "u1", source |-> [title |-> SourceMint],
   published |-> Fresh]

EntryFundingAgain ==
  [title |-> TitleFundingAgain, link |-> "u2",
   source |-> [title |-> SourceReuters], published |-> Unparseable]

EntryNoise ==
  [title |-> TitleNoise, link |-> "u3", source |-> [title |-> SourceMint],
   published |-> Fresh]

\* no published attribute; no word of the title is longer than 3 characters
EntryShort ==
  [title |-> TitleShort, link |-> "u4", source |-> [title |-> SourceMint]]

EntryMerger ==
  [title |-> TitleMerger, link |-> "u5", source |-> [title |-> SourceReuters]]

EntryOutdated ==
  [title |-> TitleMerger, link |-> "u6", source |-> [title |-> SourceMint],
   published |-> Outdated]

EntryBlog ==
  [title |-> TitleFunding, link |-> "u7", source |-> [title |-> SourceBlog],
   published |-> Fresh]

\* a structurally malformed entry: it has no title
EntryBroken ==
  [link |-> "u8", source |-> [title |-> SourceMint]]

EntryCapital ==
  [title |-> TitleCapital, link |-> "u9", source |-> [title |-> SourceReuters],
   published |-> Fresh]

\* published `age` hours ago, in a format parser.parse reads
EntryAged(age) ==
  [title |-> TitleMerger, link |-> "u10", source |-> [title |-> SourceReuters],
   published |-> [parseable |-> TRUE, age |-> age]]

\* ages around the limits of the recency check, in hours
Ages ==
  {0, 47, 48, 49, 60, 71, 72, 73}

Web ==
  {EntryFunding, EntryFundingAgain, EntryNoise, EntryShort, EntryMerger,
   EntryOutdated, EntryBlog, EntryBroken}

\* The verdicts of the filter functions on the entries of Web, evaluated once
KnownTitles ==
  {entry.title : entry \in {e \in Web : hasattr(e, "title")}}
    \cup LongTitles \cup {TitleCapital}

KnownWordSets ==
  [title \in KnownTitles |-> get_word_set(title)]

KnownNoise ==
  [title \in KnownTitles |-> is_stock_noise(title)]

KnownCredible ==
  [entry \in Web |-> is_credible_source(entry)]

WordSetOf(title) ==
  IF title \in KnownTitles THEN KnownWordSets[title] ELSE get_word_set(title)

NoiseOf(title) ==
  IF title \in KnownTitles THEN KnownNoise[title] ELSE is_stock_noise(title)

CredibleOf(entry) ==
  IF entry \in Web THEN KnownCredible[entry] ELSE is_credible_source(entry)

\* a variant of OverThreshold: the comparison is >=
OverThresholdInclusive(new_words, existing_words) ==
  LET intersection == new_words \cap existing_words
      union == new_words \cup existing_words
  IN  /\ Cardinality(union) # 0
      /\ 100 * Cardinality(intersection) >= DuplicatePercent * Cardinality(union)

\* len(intersection) / len(union) > 0.45 on two word sets
OverThreshold(new_words, existing_words) ==
  LET intersection == new_words \cap existing_words
      union == new_words \cup existing_words
  IN  /\ Cardinality(union) # 0
      /\ 100 * Cardinality(intersection) > DuplicatePercent * Cardinality(union)

\* a variant of is_duplicate: only a title of the very same words counts
is_duplicate_same_words(new_title, existing_titles) ==
  LET new_words == WordSetOf(new_title)
  IN  IF new_words = {}
        THEN FALSE
        ELSE \E k \in DOMAIN existing_titles :
               WordSetOf(existing_titles[k]) = new_words

\* a variant of is_duplicate: only a title seen before as it is counts
is_duplicate_exact(new_title, existing_titles) ==
  \E k \in DOMAIN existing_titles : existing_titles[k] = new_title

is_duplicate(new_title, existing_titles) ==
  LET new_words == WordSetOf(new_title)
  IN  IF new_words = {}
        THEN FALSE
        ELSE \E k \in DOMAIN existing_titles :
               OverThreshold(new_words, WordSetOf(existing_titles[k]))

\* what requests.post can give back: an exception, or a status and a body
Responses ==
  {[raised |-> TRUE, status |-> 0, json |-> "none"]}
    \cup {[raised |-> FALSE, status |-> s, json |-> "none"] : s \in {503, 429, 404, 500}}
    \cup {[raised |-> FALSE, status |-> 200, json |-> j] :
            j \in {"text", "fenced_text", "no_candidates", "empty_candidates",
                   "empty_object", "not_json"}}

\* result['candidates'][0]['content']['parts'][0]['text']: the briefing that
\* `model` writes from the headlines of the prompt, inside markdown fences
\* or not
GeneratedText(model, headlines, json) ==
  [model |-> model, headlines |-> headlines, fenced |-> (json = "fenced_text")]

-----------------------------------------------------------------------------
(* The history file.                                                       *)

NoFile ==
  [exists |-> FALSE, lines |-> <<>>]

\* line 127: the hash followed by a newline
HistoryLine(h) ==
  Append(h, "\n")

\* a variant of load_history: the lines are not stripped
load_history_unstripped(file, readable) ==
  IF ~file.exists
    THEN {}
    ELSE IF readable
           THEN {file.lines[k] : k \in DOMAIN file.lines}
           ELSE {}

load_history(file, readable) ==
  IF ~file.exists
    THEN {}
    ELSE IF readable
           THEN {str_strip(file.lines[k]) : k \in DOMAIN file.lines}
           ELSE {}

\* a variant of save_history: the file is opened with "w"
save_history_truncating(file, new_hashes, opened, written) ==
  IF ~opened
    THEN file
    ELSE [exists |-> TRUE,
          lines |-> [k \in 1..written |-> HistoryLine(new_hashes[k])]]

\* a variant of save_history: a hash the file already holds is not written
save_history_deduplicating(file, new_hashes, opened, written) ==
  IF ~opened
    THEN file
    ELSE [exists |-> TRUE,
          lines |-> file.lines \o
                      SelectSeq([k \in 1..written |-> HistoryLine(new_hashes[k])],
                                LAMBDA line : line \notin Range(file.lines))]

\* open(HISTORY_FILE, "a") and the writes; `opened` is whether open succeeded,
\* `written` how many lines reached the file before an error, if any
save_history(file, new_hashes, opened, written) ==
  IF ~opened
    THEN file
    ELSE [exists |-> TRUE,
          lines |-> file.lines \o
                      [k \in 1..written |-> HistoryLine(new_hashes[k])]]

-----------------------------------------------------------------------------
(* The mail sink.                                                          *)

\* what send_email does with the body: "skipped" without the secrets,
\* "failed" when SMTP raises, "sent" otherwise; it returns nothing either way
MailResult(secrets, smtp_ok) ==
  IF ~secrets THEN "skipped" ELSE IF smtp_ok THEN "sent" ELSE "failed"

\* the links of the headlines a briefing reports
LinksOf(headlines) ==
  {headlines[n].Link : n \in DOMAIN headlines}

send_email(box, html_body, secrets, smtp_ok) ==
  IF MailResult(secrets, smtp_ok) = "sent"
    THEN box \cup LinksOf(html_body.headlines)
    ELSE box

\* line 392: both fences are replaced by the empty string
strip_fences(text) ==
  [text EXCEPT !.fenced = FALSE]

-----------------------------------------------------------------------------
(* analyze_market_news as a state machine.  proc[p] holds the locals of    *)
(* the run of process p and a record of what the run has done so far.  The *)
(* module globals API_KEY, EMAIL_USER, EMAIL_PASS and EMAIL_RECEIVER come   *)
(* from the environment of the process; the model draws whether they are   *)
(* set where the run first reads them.                                     *)

VARIABLES
  historyFile,   \* sent_news_history.txt
  mailed,        \* the links reported by the briefings the SMTP server accepted
  world,         \* what the feeds will return: for each entry to come the set
                 \* it is drawn from; and the number of runs still to start
  proc           \* per process: the state of its run

vars ==
  <<historyFile, mailed, world, proc>>

Procs ==
  DOMAIN proc

NotStarted ==
  [pc |-> "idle",
   sent_hashes |-> {}, new_hashes_to_save |-> <<>>, all_headlines |-> <<>>,
   seen_titles |-> <<>>, link_no |-> 0, final_headlines |-> <<>>,
   model_no |-> 0, attempt |-> 0, success |-> FALSE,
   \* the record of the run: the file and the mail server when it started
   \* and whether the file could be read; the entry examined last, its
   \* `published` attribute if it has one, what became of it and, when it
   \* raised, the entries of its feed that came after it; the candidate
   \* asked last, what its responses were and
   \* which candidates answered with a well-formed text; how each candidate
   \* ended; the calls of send_email; the writes of save_history that
   \* succeeded and the lines appended to the file
   file_at_start |-> NoFile, mailed_at_start |-> {}, load_ok |-> TRUE,
   entry |-> "none", published |-> <<>>, verdict |-> "none", unread |-> <<>>,
   candidate |-> 0, responses |-> <<>>, answered |-> {},
   candidates |-> [k \in DOMAIN MODELS |-> "untried"],
   sink |-> <<>>, written |-> 0, appended |-> <<>>, outcome |-> "none"]

\* up to MaxRuns runs over feeds that return up to MaxEntries entries of Web
AnyFeeds ==
  [upcoming |-> [k \in 1..MaxEntries |-> Web], runs |-> MaxRuns]

\* one run over feeds that return more acceptable entries than line 346 keeps
LongFeeds ==
  [upcoming |-> [k \in 1..MaxHeadlines |-> {EntryShort}] \o <<{EntryFunding}>>,
   runs |-> 1]

\* one run over feeds that return two similar items and a noise item
TripleFeeds ==
  [upcoming |-> <<{EntryFunding}, {EntryCapital}, {EntryNoise}>>, runs |-> 1]

\* one run over feeds that return an entry without title and then a good one
BrokenFeeds ==
  [upcoming |-> <<{EntryBroken}, {EntryMerger}>>, runs |-> 1]

\* one run over feeds that return an entry of some age
AgedFeeds ==
  [upcoming |-> <<{EntryAged(age) : age \in Ages}>>, runs |-> 1]

Init ==
  /\ historyFile = NoFile
  /\ mailed = {}
  /\ world = AnyFeeds
  /\ proc = [p \in {1} |-> NotStarted]

InitLong ==
  /\ historyFile = NoFile
  /\ mailed = {}
  /\ world = LongFeeds
  /\ proc = [p \in {1} |-> NotStarted]

\* lines 299-308: the process starts and loads the history
StartRun(p) ==
  /\ proc[p].pc \in {"idle", "done"}
  /\ world.runs > 0
  /\ \E readable \in BOOLEAN :
       proc' = [proc EXCEPT ![p] =
                  [NotStarted EXCEPT
                     !.pc = "links",
                     !.sent_hashes = load_history(historyFile, readable),
                     !.link_no = 1,
                     !.file_at_start = historyFile,
                     !.mailed_at_start = mailed,
                     !.load_ok = readable \/ ~historyFile.exists]]
  /\ world' = [world EXCEPT !.runs = @ - 1]
  /\ UNCHANGED <<historyFile, mailed>>

AtLink(p) ==
  /\ proc[p].pc = "links"
  /\ proc[p].link_no <= Len(generate_rss_links)

\* line 312 raises: the handler of line 343 logs and the next link is tried
FeedError(p) ==
  /\ AtLink(p)
  /\ proc' = [proc EXCEPT ![p].link_no = @ + 1]
  /\ UNCHANGED <<historyFile, mailed, world>>

\* line 313: the feed has no entries
FeedEmpty(p) ==
  /\ AtLink(p)
  /\ proc' = [proc EXCEPT ![p].link_no = @ + 1]
  /\ UNCHANGED <<historyFile, mailed, world>>

\* line 315: the feed has entries
FeedEntries(p) ==
  /\ AtLink(p)
  /\ world.upcoming # <<>>
  /\ proc' = [proc EXCEPT ![p].pc = "first_entry"]
  /\ UNCHANGED <<historyFile, mailed, world>>

\* lines 316-317: entry.title and entry.link raise AttributeError when absent
Malformed(entry) ==
  ~hasattr(entry, "title") \/ ~hasattr(entry, "link")

\* a variant of Rejected: the history check of line 323 is missing
RejectedWithoutHistory(entry, sent_hashes, seen_titles) ==
  \/ hasattr(entry, "published") /\ ~is_within_last_48_hours(entry.published)
  \/ ~CredibleOf(entry)
  \/ NoiseOf(entry.title)
  \/ is_duplicate(entry.title, seen_titles)

\* lines 323-336: the five `continue` conditions, in order
Rejected(entry, sent_hashes, seen_titles) ==
  \/ url_hash(entry.link) \in sent_hashes
  \/ hasattr(entry, "published") /\ ~is_within_last_48_hours(entry.published)
  \/ ~CredibleOf(entry)
  \/ NoiseOf(entry.title)
  \/ is_duplicate(entry.title, seen_titles)

\* line 339: f"Title: {title} | Source: {source_name} | Link: {url}"
Headline(entry) ==
  [Title |-> entry.title,
   Source |-> dict_get(entry.source, "title", <<"N","e","w","s">>),
   Link |-> entry.link]

\* entry.published, if the entry has the attribute
PublishedOf(entry) ==
  IF hasattr(entry, "published") THEN <<entry.published>> ELSE <<>>

\* a variant of ProcessEntry: an entry that raises ends the run
ProcessEntryAborting(p, entry) ==
  LET r == proc[p] IN
  /\ r.pc \in {"first_entry", "entries"}
  /\ world.upcoming # <<>>
  /\ entry \in Head(world.upcoming)
  /\ proc' = [proc EXCEPT ![p] =
       IF Malformed(entry)
         THEN [r EXCEPT !.pc = "done", !.outcome = "aborted",
                        !.entry = entry.link, !.verdict = "raised",
                        !.published = PublishedOf(entry)]
         ELSE IF Rejected(entry, r.sent_hashes, r.seen_titles)
                THEN [r EXCEPT !.pc = "entries", !.entry = entry.link,
                               !.published = PublishedOf(entry),
                               !.verdict = "rejected"]
                ELSE [r EXCEPT
                        !.pc = "entries", !.entry = entry.link,
                        !.published = PublishedOf(entry),
                        !.verdict = "accepted",
                        !.all_headlines = Append(@, Headline(entry)),
                        !.seen_titles = Append(@, entry.title),
                        !.new_hashes_to_save = Append(@, url_hash(entry.link))]]
  /\ world' = [world EXCEPT !.upcoming = Tail(@)]
  /\ UNCHANGED <<historyFile, mailed>>

\* lines 315-344: one iteration of the loop over feed.entries.  When lines
\* 316-317 raise, the handler of line 343 is outside the loop: the `following`
\* entries of the feed are not examined and the next link is tried
ProcessEntry(p, entry) ==
  LET r == proc[p] IN
  /\ r.pc \in {"first_entry", "entries"}
  /\ world.upcoming # <<>>
  /\ entry \in Head(world.upcoming)
  /\ IF Malformed(entry)
       THEN \E following \in 0..(Len(world.upcoming) - 1) :
              /\ proc' = [proc EXCEPT ![p] =
                   [r EXCEPT !.pc = "links", !.link_no = @ + 1,
                             !.entry = entry.link, !.verdict = "raised",
                             !.published = PublishedOf(entry),
                             !.unread = SubSeq(world.upcoming, 2, following + 1)]]
              /\ world' = [world EXCEPT
                   !.upcoming = SubSeq(@, following + 2, Len(@))]
       ELSE /\ proc' = [proc EXCEPT ![p] =
                 IF Rejected(entry, r.sent_hashes, r.seen_titles)
                   THEN [r EXCEPT !.pc = "entries", !.entry = entry.link,
                                  !.published = PublishedOf(entry),
                                  !.verdict = "rejected"]
                   ELSE [r EXCEPT
                           !.pc = "entries", !.entry = entry.link,
                           !.published = PublishedOf(entry),
                           !.verdict = "accepted",
                           !.all_headlines = Append(@, Headline(entry)),
                           !.seen_titles = Append(@, entry.title),
                           !.new_hashes_to_save = Append(@, url_hash(entry.link))]]
            /\ world' = [world EXCEPT !.upcoming = Tail(@)]
  /\ UNCHANGED <<historyFile, mailed>>

\* the loop over feed.entries ends
EndFeed(p) ==
  /\ proc[p].pc = "entries"
  /\ proc' = [proc EXCEPT ![p].pc = "links", ![p].link_no = @ + 1]
  /\ UNCHANGED <<historyFile, mailed, world>>

\* all_headlines[:50]
Limit(headlines) ==
  SubSeq(headlines, 1, IF Len(headlines) < MaxHeadlines THEN Len(headlines) ELSE MaxHeadlines)

\* lines 346-385: after the last link
CheckHeadlines(p, api_key) ==
  LET r == proc[p]
      final == Limit(r.all_headlines)
  IN
  /\ r.pc = "links"
  /\ r.link_no > Len(generate_rss_links)
  /\ proc' = [proc EXCEPT ![p] =
       IF final = <<>>
         THEN [r EXCEPT !.pc = "done", !.outcome = "no_headlines",
                        !.final_headlines = final]
         ELSE IF ~api_key
                THEN [r EXCEPT !.pc = "done", !.outcome = "no_api_key",
                               !.final_headlines = final]
                ELSE [r EXCEPT !.pc = "models", !.model_no = 1, !.attempt = 0,
                               !.final_headlines = final]]
  /\ UNCHANGED <<historyFile, mailed, world>>

-----------------------------------------------------------------------------
(* The loop over MODELS and call_gemini_with_retry.                        *)

\* a variant of attempt_step: 429 is retried like 503
attempt_step_retrying_429(response) ==
  IF response.raised
    THEN "return_none"
    ELSE IF response.status = 200
           THEN IF response.json = "not_json" THEN "return_none" ELSE "return_json"
           ELSE IF response.status \in {503, 429}
                  THEN "sleep"
                  ELSE "return_none"

\* lines 283-296: what one response does to the retry loop of a candidate
attempt_step(response) ==
  IF response.raised
    THEN "return_none"
    ELSE IF response.status = 200
           THEN IF response.json = "not_json" THEN "return_none" ELSE "return_json"
           ELSE IF response.status = 503
                  THEN "sleep"
                  ELSE "return_none"

\* a variant of MoreAttempts: the loop runs once more
MoreAttemptsOffByOne(attempt) ==
  attempt + 1 <= retries

\* line 281: range(retries) has a value after `attempt`
MoreAttempts(attempt) ==
  attempt + 1 < retries

\* line 389: `if result:`
Truthy(json) ==
  json # "empty_object"

\* a variant of HasText: line 391 never raises, a missing text reads as empty
HasTextLenient(json) ==
  TRUE

\* line 391 raises KeyError or IndexError unless the text is at its path
HasText(json) ==
  json \in {"text", "fenced_text"}

Usable(response) ==
  /\ attempt_step(response) = "return_json"
  /\ Truthy(response.json)
  /\ HasText(response.json)

\* the candidate gave no result: the loop of line 386 moves on
NextModel(r) ==
  [r EXCEPT !.model_no = @ + 1, !.attempt = 0,
            !.candidates[r.model_no] = "failed"]

\* what a response is, whatever the program makes of it
WellFormed(response) ==
  /\ ~response.raised
  /\ response.status = 200
  /\ response.json \in {"text", "fenced_text"}

Kind(response) ==
  IF WellFormed(response)
    THEN "well_formed"
    ELSE IF ~response.raised /\ response.status = 503
           THEN "unavailable"
           ELSE "terminal"

\* the record of a request to MODELS[r.model_no] and of its response
Asked(r, response) ==
  [r EXCEPT
     !.candidate = r.model_no,
     !.responses = IF r.candidate = r.model_no
                     THEN Append(@, Kind(response))
                     ELSE <<Kind(response)>>,
     !.answered = IF WellFormed(response) THEN @ \cup {r.model_no} ELSE @]

\* a variant of Finished: the break of line 397 is missing
FinishedWithoutBreak(r) ==
  [r EXCEPT !.model_no = @ + 1, !.attempt = 0, !.success = TRUE,
            !.outcome = "success", !.candidates[r.model_no] = "used"]

\* lines 396-397: success = True; break
Finished(r) ==
  [r EXCEPT !.pc = "done", !.success = TRUE, !.outcome = "success",
            !.candidates[r.model_no] = "used"]

Requesting(p) ==
  /\ proc[p].pc = "models"
  /\ proc[p].model_no <= Len(MODELS)

\* line 283 answered by 503: time.sleep(5) begins
RequestUnavailable(p, response) ==
  LET r == proc[p] IN
  /\ Requesting(p)
  /\ response \in Responses
  /\ attempt_step(response) = "sleep"
  /\ proc' = [proc EXCEPT ![p] =
       [Asked(r, response) EXCEPT !.pc = "backoff"]]
  /\ UNCHANGED <<historyFile, mailed, world>>

\* lines 287-288 and 281: the sleep ends, `continue`
Backoff(p) ==
  LET r == proc[p] IN
  /\ r.pc = "backoff"
  /\ proc' = [proc EXCEPT ![p] =
       IF MoreAttempts(r.attempt)
         THEN [r EXCEPT !.pc = "models", !.attempt = @ + 1]
         ELSE [NextModel(r) EXCEPT !.pc = "models"]]
  /\ UNCHANGED <<historyFile, mailed, world>>

\* line 283 raised or was answered by something the run cannot use
RequestFails(p, response) ==
  LET r == proc[p] IN
  /\ Requesting(p)
  /\ response \in Responses
  /\ attempt_step(response) # "sleep"
  /\ ~Usable(response)
  /\ proc' = [proc EXCEPT ![p] =
       NextModel(Asked(r, response))]
  /\ UNCHANGED <<historyFile, mailed, world>>

\* line 283 answered by a usable 200: lines 391-397
\* `secrets`: the three mail variables are set; `smtp_ok`: SMTP raises nothing;
\* `opened`, `written`: how far the append to the history file gets
RequestDelivers(p, response) ==
  LET r == proc[p]
      text_output == strip_fences(GeneratedText(MODELS[r.model_no],
                                                r.final_headlines, response.json))
  IN
  /\ Requesting(p)
  /\ response \in Responses
  /\ Usable(response)
  /\ \E secrets \in BOOLEAN, smtp_ok \in BOOLEAN, opened \in BOOLEAN,
        written \in 0..Len(r.new_hashes_to_save) :
       LET file == save_history(historyFile, r.new_hashes_to_save, opened, written)
       IN  /\ ~opened => written = 0
           /\ ~secrets => smtp_ok
           /\ mailed' = send_email(mailed, text_output, secrets, smtp_ok)
           /\ historyFile' = file
           /\ proc' = [proc EXCEPT ![p] =
                Finished([Asked(r, response) EXCEPT
                   !.sink = Append(@, [text |-> text_output,
                                       result |-> MailResult(secrets, smtp_ok)]),
                   !.written = written,
                   !.appended = SubSeq(file.lines, Len(historyFile.lines) + 1,
                                       Len(file.lines))])]
  /\ UNCHANGED world

\* lines 401-402: every model was tried
AllModelsFailed(p) ==
  /\ proc[p].pc = "models"
  /\ proc[p].model_no > Len(MODELS)
  /\ proc' = [proc EXCEPT ![p].pc = "done", ![p].outcome = "generation_failed"]
  /\ UNCHANGED <<historyFile, mailed, world>>

Next ==
  \/ \E p \in Procs : StartRun(p)
  \/ \E p \in Procs : FeedError(p)
  \/ \E p \in Procs : FeedEmpty(p)
  \/ \E p \in Procs : FeedEntries(p)
  \/ \E p \in Procs, entry \in UNION Range(world.upcoming) : ProcessEntry(p, entry)
  \/ \E p \in Procs : EndFeed(p)
  \/ \E p \in Procs, api_key \in BOOLEAN : CheckHeadlines(p, api_key)
  \/ \E p \in Procs, response \in Responses : RequestUnavailable(p, response)
  \/ \E p \in Procs : Backoff(p)
  \/ \E p \in Procs, response \in Responses : RequestFails(p, response)
  \/ \E p \in Procs, response \in Responses : RequestDelivers(p, response)
  \/ \E p \in Procs : AllModelsFailed(p)

Spec ==
  Init /\ [][Next]_vars

SpecLong ==
  InitLong /\ [][Next]_vars

InitScript ==
  /\ historyFile = NoFile
  /\ mailed = {}
  /\ world \in {TripleFeeds, BrokenFeeds, AgedFeeds}
  /\ proc = [p \in {1} |-> NotStarted]

SpecScript ==
  InitScript /\ [][Next]_vars

\* The interpreter runs the one thread of a run to its end: every statement
\* returns (requests.post has a timeout, time.sleep is finite), so a step
\* that can be taken is taken
SpecScriptFair ==
  InitScript /\ [][Next]_vars /\ WF_vars(Next)

\* two processes run the script at the same time over the same history file;
\* both feeds return the same item
OverlapFeeds ==
  [upcoming |-> <<{EntryFunding}, {EntryFunding}>>, runs |-> 2]

InitOverlap ==
  /\ historyFile = NoFile
  /\ mailed = {}
  /\ world = OverlapFeeds
  /\ proc = [p \in {1, 2} |-> NotStarted]

SpecOverlap ==
  InitOverlap /\ [][Next]_vars

-----------------------------------------------------------------------------
(* is_stock_noise on its own: every title of up to MaxWords words of the   *)
(* vocabulary is cleaned and judged.                                       *)

MaxWords ==
  2

WordProfit ==
  <<"P","r","o","f","i","t">>

WordShare ==
  <<"s","h","a","r","e">>

WordShares ==
  <<"s","h","a","r","e","s">>

WordQuarter ==
  <<"Q","u","a","r","t","e","r">>

WordNifty ==
  <<"N","i","f","t","y">>

WordDeal ==
  <<"d","e","a","l">>

WordDash ==
  <<"-">>

Vocabulary ==
  {WordProfit, WordShare, WordShares, WordQuarter, WordNifty, WordDeal, WordDash}

Titles ==
  {JoinWords(words) : words \in UNION {[1..n -> Vocabulary] : n \in 1..MaxWords}}

InitNoise ==
  /\ historyFile = NoFile
  /\ mailed = {}
  /\ world = [upcoming |-> <<>>, runs |-> 0]
  /\ \E title \in Titles :
       proc = [p \in {1} |-> [pc |-> "title", title |-> title,
                              clean_title |-> <<>>, noise |-> FALSE]]

\* line 333 on the title
JudgeTitle(p) ==
  /\ proc[p].pc = "title"
  /\ proc' = [proc EXCEPT ![p] =
       [@ EXCEPT !.pc = "judged",
                 !.clean_title = clean_text(proc[p].title),
                 !.noise = is_stock_noise(proc[p].title)]]
  /\ UNCHANGED <<historyFile, mailed, world>>

NextNoise ==
  \E p \in Procs : JudgeTitle(p)

SpecNoise ==
  InitNoise /\ [][NextNoise]_vars

-----------------------------------------------------------------------------
(* is_duplicate on its own: a new title is compared with up to MaxTitles   *)
(* accepted titles.                                                        *)

MaxTitles ==
  2

ComparedTitles ==
  LongTitles \cup {TitleShort}

InitCompare ==
  /\ historyFile = NoFile
  /\ mailed = {}
  /\ world = [upcoming |-> <<>>, runs |-> 0]
  /\ \E new_title \in ComparedTitles :
       \E existing_titles \in UNION {[1..n -> ComparedTitles] : n \in 0..MaxTitles} :
         proc = [p \in {1} |-> [pc |-> "titles", new_title |-> new_title,
                                existing_titles |-> existing_titles,
                                duplicate |-> FALSE]]

\* line 336 on the two arguments
CompareTitles(p) ==
  /\ proc[p].pc = "titles"
  /\ proc' = [proc EXCEPT ![p] =
       [@ EXCEPT !.pc = "compared",
                 !.duplicate = is_duplicate(proc[p].new_title,
                                            proc[p].existing_titles)]]
  /\ UNCHANGED <<historyFile, mailed, world>>

NextCompare ==
  \E p \in Procs : CompareTitles(p)

SpecCompare ==
  InitCompare /\ [][NextCompare]_vars

-----------------------------------------------------------------------------
(* Properties.                                                             *)

Last(seq) ==
  seq[Len(seq)]

\* the run of p ended with nothing to report: no headline passed the
\* filters, or every candidate was asked and none answered with a text
TotalFailure(p) ==
  /\ proc[p].pc = "done"
  /\ \/ proc[p].all_headlines = <<>>
     \/ /\ proc[p].answered = {}
        /\ \A k \in DOMAIN MODELS : proc[p].candidates[k] # "untried"

\* C1: a run appends hashes to the history file only if send_email has
\* delivered the briefing; when the mail is skipped or fails nothing is
\* appended.
C1_CommitOnlyAfterDelivery ==
  \A p \in Procs :
    proc[p].appended # <<>> =>
      \E k \in DOMAIN proc[p].sink : proc[p].sink[k].result = "sent"

\* C2: a run that ends in total failure has not called send_email and has
\* left the history file and the mail server as they were when it started.
C2_FailedRunLeavesNoTrace ==
  \A p \in Procs :
    TotalFailure(p) =>
      /\ proc[p].sink = <<>>
      /\ historyFile = proc[p].file_at_start
      /\ mailed = proc[p].mailed_at_start

\* every candidate failed on headlines that passed the filters, in a run
\* that started with a history
C2_Witness ==
  \E p \in Procs :
    /\ TotalFailure(p)
    /\ proc[p].final_headlines # <<>>
    /\ proc[p].file_at_start.lines # <<>>

\* C3: every hash a run appends to the history file is the hash of the link
\* of a headline that was in the prompt, so that no headline cut off by the
\* limit of 50 is recorded as sent.
C3_NoUndeliveredHashCommitted ==
  \A p \in Procs :
    \A k \in DOMAIN proc[p].appended :
      \E n \in DOMAIN proc[p].final_headlines :
        HistoryLine(url_hash(proc[p].final_headlines[n].Link)) = proc[p].appended[k]

\* C4: across runs the history file only grows: every line it holds before
\* a step is still in it after the step.
C4_HistoryOnlyGrows ==
  [][Range(historyFile.lines) \subseteq Range(historyFile'.lines)]_vars

\* a run has appended to a history that earlier runs had filled
C4_Witness ==
  \E p \in Procs :
    /\ proc[p].file_at_start.lines # <<>>
    /\ proc[p].appended # <<>>

\* C5: the output list, the title list and the pending hashes describe the
\* same items in the same order, and none of them is an item whose link hash
\* is in the history loaded at the start of the run.
C5_KnownItemsStayOut ==
  \A p \in Procs :
    /\ Len(proc[p].seen_titles) = Len(proc[p].all_headlines)
    /\ Len(proc[p].new_hashes_to_save) = Len(proc[p].all_headlines)
    /\ \A k \in DOMAIN proc[p].all_headlines :
         /\ proc[p].seen_titles[k] = proc[p].all_headlines[k].Title
         /\ proc[p].new_hashes_to_save[k] = url_hash(proc[p].all_headlines[k].Link)
         /\ url_hash(proc[p].all_headlines[k].Link) \notin proc[p].sent_hashes

\* the first entry of a run is recent, credible, no noise and no duplicate,
\* and is rejected because its hash is in the loaded history
C5_Witness ==
  \E p \in Procs :
    /\ proc[p].entry = EntryFunding.link
    /\ proc[p].verdict = "rejected"
    /\ proc[p].seen_titles = <<>>
    /\ url_hash(EntryFunding.link) \in proc[p].sent_hashes

\* an earlier run mailed a briefing with this link and wrote its hash
DeliveredAndCommittedBefore(p, link) ==
  /\ link \in proc[p].mailed_at_start
  /\ HistoryLine(url_hash(link)) \in Range(proc[p].file_at_start.lines)

\* C6 as stated: no run has in its output list an item that an earlier run
\* delivered and committed.
C6_DeliveredNeverRepeated ==
  \A p \in Procs :
    \A k \in DOMAIN proc[p].all_headlines :
      ~DeliveredAndCommittedBefore(p, proc[p].all_headlines[k].Link)

\* C6 as amended: no run that could read the history file has in its output
\* list an item that an earlier run delivered and committed.
C6_DeliveredNeverRepeatedIfLoaded ==
  \A p \in Procs :
    proc[p].load_ok =>
      \A k \in DOMAIN proc[p].all_headlines :
        ~DeliveredAndCommittedBefore(p, proc[p].all_headlines[k].Link)

\* a run that read the history rejects, as its first entry, an item that an
\* earlier run delivered and committed
C6_Witness ==
  \E p \in Procs :
    /\ proc[p].load_ok
    /\ proc[p].verdict = "rejected"
    /\ proc[p].seen_titles = <<>>
    /\ proc[p].entry = EntryFunding.link
    /\ DeliveredAndCommittedBefore(p, EntryFunding.link)

\* a step of p in which a request is sent
Requests(p) ==
  /\ proc[p].pc = "models"
  /\ \/ proc'[p].candidate # proc[p].candidate
     \/ proc'[p].responses # proc[p].responses

\* C7: every request goes to the candidate asked last or to the one after it
\* in MODELS, starting with the first; once a candidate has answered with a
\* terminal condition the next request goes to the one after it.
C7_InOrderNeverRevisited ==
  [][\A p \in Procs :
       Requests(p) =>
         /\ proc'[p].candidate \in {proc[p].candidate, proc[p].candidate + 1}
         /\ proc[p].candidate = 0 => proc'[p].candidate = 1
         /\ (proc[p].responses # <<>> /\ Last(proc[p].responses) = "terminal")
              => proc'[p].candidate = proc[p].candidate + 1]_vars

\* the second candidate was asked after the first had failed, answered with
\* a terminal condition, and the loop stands at the third
C7_Witness ==
  \E p \in Procs :
    /\ proc[p].pc = "models"
    /\ proc[p].candidate = 2
    /\ Last(proc[p].responses) = "terminal"
    /\ proc[p].model_no = 3

\* C8: a candidate is sent at most 3 requests; after a 503 with attempts
\* left the same candidate is asked again; 503, 503 and a well-formed 200
\* make the run deliver that candidate's text; three 503 make it move on.
C8_RetryBudget ==
  \A p \in Procs :
    /\ Len(proc[p].responses) <= 3
    /\ (/\ proc[p].pc = "models"
        /\ proc[p].responses # <<>>
        /\ Last(proc[p].responses) = "unavailable"
        /\ Len(proc[p].responses) < 3)
         => proc[p].model_no = proc[p].candidate
    /\ proc[p].responses = <<"unavailable", "unavailable", "well_formed">>
         => /\ proc[p].pc = "done"
            /\ Len(proc[p].sink) = 1
            /\ proc[p].sink[1].text.model = MODELS[proc[p].candidate]
    /\ (/\ proc[p].responses = <<"unavailable", "unavailable", "unavailable">>
        /\ proc[p].pc # "backoff")
         => /\ proc[p].candidates[proc[p].candidate] = "failed"
            /\ proc[p].model_no = proc[p].candidate + 1

\* a candidate answered 503, 503 and then with a text
C8_Witness ==
  \E p \in Procs :
    /\ proc[p].responses = <<"unavailable", "unavailable", "well_formed">>
    /\ proc[p].pc = "done"

\* C9: send_email is called at most once in a run, with the text of the
\* only candidate that answered with a well-formed text; every candidate
\* before it failed, none after it was tried, and the run is over.
C9_OneCandidateDelivers ==
  \A p \in Procs :
    /\ Len(proc[p].sink) <= 1
    /\ proc[p].answered # {} => proc[p].sink # <<>>
    /\ proc[p].sink # <<>> =>
         /\ proc[p].pc = "done"
         /\ proc[p].answered = {proc[p].candidate}
         /\ proc[p].sink[1].text.model = MODELS[proc[p].candidate]
         /\ \A k \in DOMAIN MODELS :
              /\ k < proc[p].candidate => proc[p].candidates[k] = "failed"
              /\ k > proc[p].candidate => proc[p].candidates[k] = "untried"

\* the third candidate delivered after two had failed
C9_Witness ==
  \E p \in Procs :
    /\ proc[p].sink # <<>>
    /\ proc[p].candidate = 3

\* C10 as stated: a title whose cleaned form contains a fundamentals term
\* and a bad-context term is judged noise.
C10_FundamentalsWithBadContextRejected ==
  \A p \in Procs :
    (/\ proc[p].pc = "judged"
     /\ AnyIn(FUNDAMENTAL_TERMS, proc[p].clean_title)
     /\ AnyIn(bad_context, proc[p].clean_title))
      => proc[p].noise

\* C10 as amended: a title whose cleaned form contains a noise keyword, a
\* fundamentals term and a bad-context term is judged noise.
C10_NoisyFundamentalsWithBadContextRejected ==
  \A p \in Procs :
    (/\ proc[p].pc = "judged"
     /\ AnyIn(STOCK_NOISE_KEYWORDS, proc[p].clean_title)
     /\ AnyIn(FUNDAMENTAL_TERMS, proc[p].clean_title)
     /\ AnyIn(bad_context, proc[p].clean_title))
      => proc[p].noise

\* "Profit shares" has been judged
C10_Witness ==
  \E p \in Procs :
    /\ proc[p].pc = "judged"
    /\ proc[p].title = JoinWords(<<WordProfit, WordShares>>)
    /\ proc[p].noise


\* the token-set Jaccard similarity of two titles is above 0.45: 9 * |union|
\* is less than 20 * |intersection|
SimilarityAboveThreshold(a, b) ==
  9 * Cardinality(WordSetOf(a) \cup WordSetOf(b))
    < 20 * Cardinality(WordSetOf(a) \cap WordSetOf(b))

\* C11: is_duplicate flags the new title exactly when its similarity with at
\* least one accepted title is above 0.45; a similarity of exactly 0.45 or
\* less with every accepted title is not flagged.
C11_DuplicateIffAboveThreshold ==
  \A p \in Procs :
    proc[p].pc = "compared" =>
      (proc[p].duplicate <=>
         \E k \in DOMAIN proc[p].existing_titles :
           SimilarityAboveThreshold(proc[p].new_title, proc[p].existing_titles[k]))

\* 9 of 20 words are shared, a similarity of exactly 0.45, and the title is
\* not flagged
C11_Witness ==
  \E p \in Procs :
    /\ proc[p].pc = "compared"
    /\ proc[p].new_title = LongTitle(1, 14)
    /\ proc[p].existing_titles = <<LongTitleWithSource(6, 20)>>
    /\ Cardinality(WordSetOf(proc[p].new_title)
                     \cap WordSetOf(proc[p].existing_titles[1])) = 9
    /\ Cardinality(WordSetOf(proc[p].new_title)
                     \cup WordSetOf(proc[p].existing_titles[1])) = 20
    /\ ~proc[p].duplicate


\* C12: an item whose published timestamp parses and is more than 2 days
\* (48 hours) old when it is checked is rejected and is not in the output
\* list.
C12_OlderThanWindowRejected ==
  \A p \in Procs :
    \A k \in DOMAIN proc[p].published :
      (/\ proc[p].verdict \in {"accepted", "rejected"}
       /\ proc[p].published[k].parseable
       /\ proc[p].published[k].age > 24 * RecencyDays)
        => /\ proc[p].verdict = "rejected"
           /\ proc[p].entry \notin LinksOf(proc[p].all_headlines)

\* a step of p in which a query fails: the fetch raises (or the feed is
\* empty), or an entry of the feed raises
QueryFails(p) ==
  \/ /\ proc[p].pc = "links"
     /\ proc'[p].pc = "links"
     /\ proc'[p].link_no # proc[p].link_no
  \/ /\ proc[p].pc \in {"first_entry", "entries"}
     /\ proc'[p].verdict = "raised"

\* C13: a query that fails leaves the output list, the title list and the
\* pending hashes as they were and the run goes on with the next query; the
\* run leaves the loop over the queries only after the last one.
C13_FailedQueryDoesNotAbort ==
  [][\A p \in Procs :
       /\ QueryFails(p) =>
            /\ proc'[p].pc = "links"
            /\ proc'[p].link_no = proc[p].link_no + 1
            /\ proc'[p].all_headlines = proc[p].all_headlines
            /\ proc'[p].seen_titles = proc[p].seen_titles
            /\ proc'[p].new_hashes_to_save = proc[p].new_hashes_to_save
       /\ (/\ proc[p].pc \in {"links", "first_entry", "entries"}
           /\ proc'[p].pc \notin {"links", "first_entry", "entries"})
            => proc[p].link_no = Len(generate_rss_links) + 1]_vars

\* an entry raised after an item had been accepted, and queries are left
C13_Witness ==
  \E p \in Procs :
    /\ proc[p].pc = "links"
    /\ proc[p].verdict = "raised"
    /\ proc[p].all_headlines # <<>>
    /\ proc[p].link_no <= Len(generate_rss_links)

\* C14: a malformed entry is the only one skipped: no well-formed entry that
\* follows it in its feed is left unexamined.
C14_MalformedSkipsOnlyItself ==
  \A p \in Procs :
    \A k \in DOMAIN proc[p].unread :
      \A entry \in proc[p].unread[k] : Malformed(entry)

\* C15: an accepted title is similar to none accepted before it; of the
\* three items of TripleFeeds (the second similar to the first, the third
\* noise) the output is exactly the first, from its acceptance on.
C15_FirstSeenWins ==
  \A p \in Procs :
    /\ \A j \in DOMAIN proc[p].seen_titles, k \in DOMAIN proc[p].seen_titles :
         j < k => ~SimilarityAboveThreshold(proc[p].seen_titles[k],
                                            proc[p].seen_titles[j])
    /\ proc[p].entry \in {EntryFunding.link, EntryCapital.link, EntryNoise.link}
         => /\ proc[p].all_headlines = <<Headline(EntryFunding)>>
            /\ proc[p].seen_titles = <<TitleFunding>>
            /\ proc[p].new_hashes_to_save = <<url_hash(EntryFunding.link)>>

\* the three items have been examined: the second has 3 of 5 words in common
\* with the first, and the third was rejected last
C15_Witness ==
  \E p \in Procs :
    /\ proc[p].entry = EntryNoise.link
    /\ proc[p].verdict = "rejected"
    /\ world.upcoming = <<>>
    /\ 5 * Cardinality(WordSetOf(TitleFunding) \cap WordSetOf(TitleCapital))
         = 3 * Cardinality(WordSetOf(TitleFunding) \cup WordSetOf(TitleCapital))
    /\ proc[p].all_headlines = <<Headline(EntryFunding)>>

\* C16: when a backoff wait ends, the run is about to send another request
\* to the same candidate.
C16_BackoffThenSameCandidate ==
  [][\A p \in Procs :
       (proc[p].pc = "backoff" /\ proc'[p].pc # "backoff")
         => /\ proc'[p].pc = "models"
            /\ proc'[p].model_no = proc[p].model_no]_vars


\* the request slots used up: retries for every candidate before the one
\* asked last, and the requests sent to that one
Rank(r) ==
  IF r.candidate = 0
    THEN 0
    ELSE retries * (r.candidate - 1) + Len(r.responses)

InFallback ==
  \E p \in Procs : proc[p].pc \in {"models", "backoff"}

Terminal ==
  \A p \in Procs :
    /\ proc[p].pc = "done"
    /\ proc[p].outcome \in {"success", "generation_failed"}

\* C17: every request uses up at least one of the 3 x N request slots, so
\* at most 3 x N requests are sent; and a run that has begun to ask the
\* candidates ends in success or with every candidate failed.
C17_TerminatesWithinBudget ==
  /\ [][\A p \in Procs :
          Requests(p) =>
            /\ Rank(proc'[p]) > Rank(proc[p])
            /\ Rank(proc'[p]) <= retries * Len(MODELS)]_vars
  /\ InFallback ~> Terminal

\* every candidate was asked its three times, all answered 503, and the run
\* ended
C17_Witness ==
  \E p \in Procs :
    /\ proc[p].pc = "done"
    /\ proc[p].outcome = "generation_failed"
    /\ proc[p].candidate = Len(MODELS)
    /\ proc[p].responses = <<"unavailable", "unavailable", "unavailable">>
    /\ Rank(proc[p]) = retries * Len(MODELS)

\* how many lines of `lines` are `line`
Count(line, lines) ==
  Cardinality({k \in DOMAIN lines : lines[k] = line})

\* C18: a run filters against the history as it was when the run loaded it,
\* whatever has been appended since, and every write of save_history that
\* succeeds appends its hash, in the file or not: with two processes that
\* have each run once, every line is in the file as many times as the two
\* wrote it.
C18_OverlappingRunsBothCommit ==
  \A p \in Procs, q \in Procs :
    (p # q /\ proc[p].pc # "idle" /\ proc[q].pc # "idle") =>
      /\ proc[p].sent_hashes
           = load_history(proc[p].file_at_start, proc[p].load_ok)
      /\ proc[p].appended = [k \in 1..proc[p].written |->
                                HistoryLine(proc[p].new_hashes_to_save[k])]
      /\ \A line \in Range(historyFile.lines)
                     \cup Range(proc[p].appended) \cup Range(proc[q].appended) :
           Count(line, historyFile.lines)
             = Count(line, proc[p].appended) + Count(line, proc[q].appended)

\* both processes loaded the empty history, both accepted the item with link
\* u1, both mailed it and both appended its hash
C18_Witness ==
  \E p \in Procs, q \in Procs :
    /\ p # q
    /\ proc[p].file_at_start = NoFile
    /\ proc[q].file_at_start = NoFile
    /\ \A x \in {p, q} :
         /\ proc[x].pc = "done"
         /\ LinksOf(proc[x].final_headlines) = {EntryFunding.link}
         /\ Len(proc[x].sink) = 1
         /\ proc[x].sink[1].result = "sent"
         /\ proc[x].appended = <<HistoryLine(url_hash(EntryFunding.link))>>
    /\ Count(HistoryLine(url_hash(EntryFunding.link)), historyFile.lines) = 2

\* C19: no link is twice in the output list of a run, and no hash is twice
\* among the hashes the run is to persist.
C19_NoLinkTwice ==
  \A p \in Procs :
    \A j \in DOMAIN proc[p].all_headlines, k \in DOMAIN proc[p].all_headlines :
      j # k =>
        /\ proc[p].all_headlines[j].Link # proc[p].all_headlines[k].Link
        /\ proc[p].new_hashes_to_save[j] # proc[p].new_hashes_to_save[k]

\* C20: two different accepted titles whose word sets are not both empty
\* have a similarity of at most 0.45, whichever came first; and the title
\* list, the output list and the pending hashes have the same length and
\* describe the same items in the same order.
C20_AcceptedTitlesPairwiseDissimilar ==
  \A p \in Procs :
    /\ \A j \in DOMAIN proc[p].seen_titles, k \in DOMAIN proc[p].seen_titles :
         (/\ proc[p].seen_titles[j] # proc[p].seen_titles[k]
          /\ WordSetOf(proc[p].seen_titles[j]) \cup WordSetOf(proc[p].seen_titles[k]) # {})
           => ~SimilarityAboveThreshold(proc[p].seen_titles[j], proc[p].seen_titles[k])
    /\ DOMAIN proc[p].seen_titles = DOMAIN proc[p].all_headlines
    /\ DOMAIN proc[p].seen_titles = DOMAIN proc[p].new_hashes_to_save
    /\ \A k \in DOMAIN proc[p].seen_titles :
         /\ proc[p].all_headlines[k].Title = proc[p].seen_titles[k]
         /\ proc[p].new_hashes_to_save[k] = url_hash(proc[p].all_headlines[k].Link)

\* two different titles with words in common have been accepted
C20_Witness ==
  \E p \in Procs :
    /\ Len(proc[p].seen_titles) = 2
    /\ proc[p].seen_titles[1] # proc[p].seen_titles[2]
    /\ WordSetOf(proc[p].seen_titles[1]) \cap WordSetOf(proc[p].seen_titles[2]) # {}

=============================================================================
